---- MODULE Spec2Model ----
(***************************************************************************)
(* Model of server-turnstile-check.js: an Express relay that forwards a    *)
(* CAPTCHA token to Cloudflare's siteverify endpoint.  The source file     *)
(* holds two programs: the single-secret server (lines 1-68) and the       *)
(* multi-mode server with a CORS middleware (lines 70-167).  `variant`     *)
(* says which of the two is running.                                       *)
(***************************************************************************)
EXTENDS Integers, FiniteSets, Sequences, TLC

\* Number of inbound requests a behaviour may hold (they overlap freely).
MaxReqs == 2

Reqs == 1..MaxReqs

\* The JavaScript value `undefined` (an unset environment variable, a
\* missing body field, a missing object key).
Undefined == "?undefined"

Variants == {"single", "multi"}

\* An environment variable holding a secret is unset or set at startup.
EnvValues == {Undefined, "sk"}

\* Inbound request inputs.
Methods == {"POST", "OPTIONS"}
Paths == {"/turnstile-check", "/recaptcha"}
Tokens == {"XXXX"}
Modes == {Undefined, "normal", "invisible", "bogus"}

----------------------------------------------------------------------------
\* JSON values: objects are functions from field names to scalar literals.

NoFields == [k \in {} |-> ""]

JObj(f) == [t |-> "obj", o |-> f]

JNull == [t |-> "null", o |-> NoFields]

TextBody(s) == [t |-> "text", o |-> ("text" :> s)]

NoBody == [t |-> "none", o |-> NoFields]

\* Bodies the verification provider may answer with, after response.json().
ProviderBodies ==
  { JObj("success" :> "true"),
    JObj(("success" :> "true") @@ ("hostname" :> "example.com")),
    JObj("success" :> "1"),
    JObj(("success" :> "false") @@ ("error-codes" :> "invalid-input-response")),
    JObj(NoFields),
    JNull }

\* data.success on a parsed body that is not null.
SuccessField(data) ==
  IF data.t = "obj" /\ "success" \in DOMAIN data.o THEN data.o["success"] ELSE Undefined

\* JavaScript truthiness of a scalar.
Truthy(x) == x \notin {Undefined, "false", "0", "null", ""}

\* URLSearchParams.append(name, value) stores String(value).
ToFormString(v) == IF v = Undefined THEN "undefined" ELSE v

----------------------------------------------------------------------------
VARIABLES variant, env, SECRET_KEY, proc, exitCode, console, reqs

vars == <<variant, env, SECRET_KEY, proc, exitCode, console, reqs>>

NoResp == [status |-> 0, body |-> NoBody]

NoForm == [secret |-> "", response |-> ""]

IdleReq ==
  [ st |-> "idle", method |-> "", path |-> "", token |-> "", mode |-> "",
    cors |-> FALSE, parsed |-> FALSE, handler |-> FALSE,
    secret |-> Undefined, form |-> NoForm, calls |-> 0,
    upstream |-> "none", data |-> NoBody, resp |-> NoResp ]

\* Names of the secret environment variables each program reads.
EnvNames(v) ==
  IF v = "single" THEN {"TURNSTILE_SECRET_KEY"}
  ELSE {"TURNSTILE_CHECK_SECRET_KEY", "TURNSTILE_INVISIBLE_SECRET_KEY"}

\* const SECRET_KEY = { normal: ..., invisible: ... } (multi-mode program only).
SecretKeyObject(v, e) ==
  IF v = "multi"
  THEN [k \in {"normal", "invisible"} |->
          IF k = "normal" THEN e["TURNSTILE_CHECK_SECRET_KEY"]
          ELSE e["TURNSTILE_INVISIBLE_SECRET_KEY"]]
  ELSE NoFields

Init ==
  /\ variant \in Variants
  /\ env \in [EnvNames(variant) -> EnvValues]
  /\ SECRET_KEY = SecretKeyObject(variant, env)
  /\ proc = "starting"
  /\ exitCode = 0
  /\ console = {}
  /\ reqs = [r \in Reqs |-> IdleReq]

----------------------------------------------------------------------------
\* Express response helpers.

\* res.sendStatus(code): sets the status and sends the status message as a
\* text body.
SendStatus(code) ==
  [status |-> code, body |-> TextBody(IF code = 200 THEN "OK" ELSE "Error")]

\* Express's default answer when no middleware or route takes the request.
NotFound(q) == [status |-> 404, body |-> TextBody("Cannot " \o q.method \o " " \o q.path)]

\* Express's automatic OPTIONS answer for a path that has routes: 200 with
\* the allowed methods.
AutoOptions == [status |-> 200, body |-> TextBody("POST")]

\* Faulty CORS middleware: the preflight branch is missing, so an OPTIONS
\* request goes on to next().
CorsMiddlewareFallsThrough(q) == [q EXCEPT !.cors = TRUE]

\* CORS middleware of the multi-mode program: sets the headers, answers an
\* OPTIONS request with sendStatus(200) and returns without calling next().
CorsMiddleware(q) ==
  IF q.method = "OPTIONS"
  THEN [q EXCEPT !.cors = TRUE, !.st = "done", !.resp = SendStatus(200)]
  ELSE [q EXCEPT !.cors = TRUE]

\* app.use(express.json()): the body parser runs on the request.
ExpressJson(q) == [q EXCEPT !.parsed = TRUE]

\* The secret the handler appends to the form: process.env.TURNSTILE_SECRET_KEY
\* in the single-secret program, SECRET_KEY[mode] in the multi-mode one.
ResolveSecret(v, e, sk, mode) ==
  IF v = "single" THEN e["TURNSTILE_SECRET_KEY"]
  ELSE IF mode \in DOMAIN sk THEN sk[mode] ELSE Undefined

\* The handler up to its first await: destructure the body, build the form,
\* call fetch.
HandlerStart(v, e, sk, q) ==
  LET s == ResolveSecret(v, e, sk, q.mode) IN
  [q EXCEPT !.handler = TRUE,
            !.secret = s,
            !.form = [secret |-> ToFormString(s), response |-> ToFormString(q.token)],
            !.calls = @ + 1,
            !.upstream = "pending",
            !.st = "fetch"]

\* Routing table: only POST /turnstile-check is registered.
Router(v, e, sk, q) ==
  IF q.method = "POST" /\ q.path = "/turnstile-check" THEN HandlerStart(v, e, sk, q)
  ELSE IF q.method = "OPTIONS" /\ q.path = "/turnstile-check"
       THEN [q EXCEPT !.st = "done", !.resp = AutoOptions]
  ELSE [q EXCEPT !.st = "done", !.resp = NotFound(q)]

\* The middleware chain, in registration order.
Dispatch(v, e, sk, q) ==
  LET a == IF v = "multi" THEN CorsMiddleware(q) ELSE q IN
  IF a.st = "done" THEN a ELSE Router(v, e, sk, ExpressJson(a))

\* Faulty catch block: answers with the message of the error it caught.
CatchBlockLeaky(q) ==
  [q EXCEPT !.st = "done",
            !.resp = [status |-> 500, body |-> JObj("error" :> q.upstream)]]

\* catch (error): res.status(500).json({ error: "Internal server error" }).
CatchBlock(q) ==
  [q EXCEPT !.st = "done",
            !.resp = [status |-> 500, body |-> JObj("error" :> "Internal server error")]]

\* The line console.error writes in the catch block, with the error it logs.
CatchLog(detail) == "Error verifying turnstile token: " \o detail

\* Faulty result mapping: tests data.success === true instead of truthiness.
MultiRespondStrict(data) ==
  IF SuccessField(data) = "true"
  THEN [status |-> 200, body |-> JObj("success" :> "true")]
  ELSE [status |-> 400, body |-> JObj("success" :> "false")]

\* Multi-mode program, lines 128-134: if (data.success) ... else ...
MultiRespond(data) ==
  IF Truthy(SuccessField(data))
  THEN [status |-> 200, body |-> JObj("success" :> "true")]
  ELSE [status |-> 400, body |-> JObj("success" :> "false")]

\* Single-secret program, line 39: res.json(data).
SingleRespond(data) == [status |-> 200, body |-> data]

\* Reading data.success throws a TypeError when data is null.
ReadThrows(v, data) == v = "multi" /\ data = JNull

----------------------------------------------------------------------------
\* Process start-up.

ListenOk ==
  /\ proc = "starting"
  /\ proc' = "listening"
  /\ console' = console \cup {"Turnstile PoC server running"}
  /\ UNCHANGED <<variant, env, SECRET_KEY, exitCode, reqs>>

ListenError(code) ==
  /\ proc = "starting"
  /\ console' = console \cup
       {IF code = "EADDRINUSE" THEN "Port is already in use" ELSE "Server error: " \o code}
  /\ proc' = "exited"
  /\ exitCode' = 1
  /\ UNCHANGED <<variant, env, SECRET_KEY, reqs>>

\* process.on("unhandledRejection"): logs.
UnhandledRejection ==
  /\ proc \in {"starting", "listening"}
  /\ console' = console \cup {"Unhandled Rejection at:"}
  /\ UNCHANGED <<variant, env, SECRET_KEY, proc, exitCode, reqs>>

\* process.on("uncaughtException"): logs and exits.
UncaughtException ==
  /\ proc \in {"starting", "listening"}
  /\ console' = console \cup {"Uncaught Exception:"}
  /\ proc' = "exited"
  /\ exitCode' = 1
  /\ UNCHANGED <<variant, env, SECRET_KEY, reqs>>

----------------------------------------------------------------------------
\* Request handling.

\* A request arrives and runs synchronously through the middleware chain,
\* up to its answer or to the handler's await of fetch.
Receive(r, method, path, token, mode) ==
  /\ proc = "listening"
  /\ reqs[r].st = "idle"
  /\ \A p \in Reqs : p < r => reqs[p].st # "idle"
  /\ reqs' = [reqs EXCEPT ![r] =
       Dispatch(variant, env, SECRET_KEY,
         [IdleReq EXCEPT !.st = "recv", !.method = method, !.path = path,
                         !.token = token, !.mode = mode])]
  /\ UNCHANGED <<variant, env, SECRET_KEY, proc, exitCode, console>>

\* fetch resolves with the provider's HTTP response; the handler goes on to
\* await verifyResponse.json().
FetchResolve(r) ==
  /\ proc = "listening"
  /\ reqs[r].st = "fetch"
  /\ reqs' = [reqs EXCEPT ![r].st = "json"]
  /\ UNCHANGED <<variant, env, SECRET_KEY, proc, exitCode, console>>

\* Faulty failure path: a rejected fetch is issued again instead of being
\* answered.
FetchRejectRetry(r) ==
  /\ proc = "listening"
  /\ reqs[r].st = "fetch"
  /\ reqs[r].calls < 3
  /\ reqs' = [reqs EXCEPT ![r].calls = @ + 1]
  /\ console' = console \cup {CatchLog("FetchError")}
  /\ UNCHANGED <<variant, env, SECRET_KEY, proc, exitCode>>

\* fetch rejects (network failure): the catch block answers.
FetchReject(r) ==
  /\ proc = "listening"
  /\ reqs[r].st = "fetch"
  /\ reqs' = [reqs EXCEPT ![r] = CatchBlock([@ EXCEPT !.upstream = "network-error"])]
  /\ console' = console \cup {CatchLog("FetchError")}
  /\ UNCHANGED <<variant, env, SECRET_KEY, proc, exitCode>>

\* verifyResponse.json() rejects (the body is not JSON): the catch block answers.
JsonReject(r) ==
  /\ proc = "listening"
  /\ reqs[r].st = "json"
  /\ reqs' = [reqs EXCEPT ![r] = CatchBlock([@ EXCEPT !.upstream = "malformed"])]
  /\ console' = console \cup {CatchLog("SyntaxError")}
  /\ UNCHANGED <<variant, env, SECRET_KEY, proc, exitCode>>

\* Faulty handler that remembers the tokens it has verified: a token another
\* answered request already carried is refused as a replay.
JsonResolveReplayCache(r, data) ==
  /\ proc = "listening"
  /\ reqs[r].st = "json"
  /\ LET q == [reqs[r] EXCEPT !.upstream = "json", !.data = data]
         seen == \E s \in Reqs : s # r /\ reqs[s].st = "done" /\ reqs[s].handler
                                  /\ reqs[s].token = reqs[r].token
     IN
     IF ReadThrows(variant, data)
     THEN /\ reqs' = [reqs EXCEPT ![r] = CatchBlock(q)]
          /\ console' = console \cup {CatchLog("TypeError")}
     ELSE /\ reqs' = [reqs EXCEPT ![r] =
                [q EXCEPT !.st = "done",
                          !.resp = IF seen
                                   THEN [status |-> 400, body |-> JObj("success" :> "false")]
                                   ELSE IF variant = "single" THEN SingleRespond(data)
                                   ELSE MultiRespond(data)]]
          /\ UNCHANGED console
  /\ UNCHANGED <<variant, env, SECRET_KEY, proc, exitCode>>

\* verifyResponse.json() resolves with data: the rest of the try block.
JsonResolve(r, data) ==
  /\ proc = "listening"
  /\ reqs[r].st = "json"
  /\ LET q == [reqs[r] EXCEPT !.upstream = "json", !.data = data] IN
     IF ReadThrows(variant, data)
     THEN /\ reqs' = [reqs EXCEPT ![r] = CatchBlock(q)]
          /\ console' = console \cup {CatchLog("TypeError")}
     ELSE /\ reqs' = [reqs EXCEPT ![r] =
                [q EXCEPT !.st = "done",
                          !.resp = IF variant = "single" THEN SingleRespond(data)
                                   ELSE MultiRespond(data)]]
          /\ UNCHANGED console
  /\ UNCHANGED <<variant, env, SECRET_KEY, proc, exitCode>>

Next ==
  \/ ListenOk
  \/ \E code \in {"EADDRINUSE", "EACCES"} : ListenError(code)
  \/ \E r \in Reqs, method \in Methods, path \in Paths, token \in Tokens, mode \in Modes :
       Receive(r, method, path, token, mode)
  \/ \E r \in Reqs : FetchResolve(r)
  \/ \E r \in Reqs : FetchReject(r)
  \/ \E r \in Reqs : JsonReject(r)
  \/ \E r \in Reqs, data \in ProviderBodies : JsonResolve(r, data)

\* The server: start-up and request handling.
Spec == Init /\ [][Next]_vars

\* The server together with the process-wide error events.
FatalNext ==
  \/ Next
  \/ UnhandledRejection
  \/ UncaughtException

FatalSpec == Init /\ [][FatalNext]_vars

----------------------------------------------------------------------------
\* Vocabulary of the properties.

Done(r) == reqs[r].st = "done"

\* The request is a POST to the verification route.
IsVerify(q) == q.method = "POST" /\ q.path = "/turnstile-check"

\* The mode is one of the configured keys of SECRET_KEY.
Recognized(mode) == mode \in DOMAIN SECRET_KEY

\* The outbound call completed with a JSON object.
GotObject(q) == q.upstream = "json" /\ q.data.t = "obj"

SuccessTrue == [status |-> 200, body |-> JObj("success" :> "true")]

SuccessFalse == [status |-> 400, body |-> JObj("success" :> "false")]

InternalError == [status |-> 500, body |-> JObj("error" :> "Internal server error")]

----------------------------------------------------------------------------
\* C1: in the multi-mode program, a POST /turnstile-check with a recognized
\* mode whose outbound call completed with a JSON object whose success field
\* is truthy is answered 200 {success: true}, without the provider's fields.
C1_TruthyAnswers200 ==
  \A r \in Reqs :
    (Done(r) /\ IsVerify(reqs[r]) /\ Recognized(reqs[r].mode) /\ GotObject(reqs[r])
       /\ Truthy(SuccessField(reqs[r].data)))
      => reqs[r].resp = SuccessTrue

\* A recognized-mode request whose provider body carried success: true and a
\* provider-specific field has been answered 200 {success: true}.
C1_Witness ==
  \E r \in Reqs :
    /\ Done(r) /\ IsVerify(reqs[r]) /\ reqs[r].mode = "invisible"
    /\ GotObject(reqs[r]) /\ "hostname" \in DOMAIN reqs[r].data.o
    /\ reqs[r].resp = SuccessTrue

\* C2: in every /turnstile-check handler (single-secret and multi-mode), a
\* request whose outbound call completed with a JSON object whose success
\* field is not truthy is answered 400 {success: false}, never 200.
C2_FalsyAnswers400 ==
  \A r \in Reqs :
    (Done(r) /\ IsVerify(reqs[r]) /\ (variant = "single" \/ Recognized(reqs[r].mode))
       /\ GotObject(reqs[r]) /\ ~Truthy(SuccessField(reqs[r].data)))
      => reqs[r].resp = SuccessFalse

\* C3: in the multi-mode program, a POST /turnstile-check whose mode is
\* missing or not a configured key issues no outbound call and is answered
\* 400 with an "Invalid mode" error body.
C3_InvalidModeRejected ==
  \A r \in Reqs :
    (variant = "multi" /\ IsVerify(reqs[r]) /\ ~Recognized(reqs[r].mode))
      => /\ reqs[r].calls = 0
         /\ Done(r) => reqs[r].resp =
                         [status |-> 400, body |-> JObj("error" :> "Invalid mode")]

\* C4, the answer: a request whose outbound call rejected, or whose provider
\* body was not JSON, is answered 500 {error: "Internal server error"}.
C4_FailureAnswered ==
  \A r \in Reqs :
    (Done(r) /\ reqs[r].upstream \in {"network-error", "malformed"})
      => reqs[r].resp = InternalError

\* C4, the process: the step that answers such a request leaves the process
\* listening, with no exit code set.
C4_ProcessSurvives ==
  \A r \in Reqs :
    (~Done(r) /\ reqs'[r].st = "done"
       /\ reqs'[r].upstream \in {"network-error", "malformed"})
      => proc' = "listening" /\ exitCode' = 0

\* C4: an outbound call that rejects, or a provider body that is not JSON,
\* is answered 500 with the fixed generic body, and the process keeps
\* running.
C4_UpstreamFailureIs500 == []C4_FailureAnswered /\ [][C4_ProcessSurvives]_vars

\* One request failed on the network and was answered 500; another was
\* served 200 by the same, still listening, process.
C4_Witness ==
  /\ proc = "listening"
  /\ \E r, s \in Reqs :
       /\ r < s
       /\ Done(r) /\ reqs[r].upstream = "network-error" /\ reqs[r].resp = InternalError
       /\ Done(s) /\ reqs[s].upstream = "json" /\ reqs[s].resp.status = 200

----------------------------------------------------------------------------
\* C5 as stated: in the multi-mode program every OPTIONS request, to any
\* path, is answered 200 with no body by the CORS middleware, with no body
\* parsing, no route handler, no secret lookup and no outbound call.
C5_OptionsEmpty200 ==
  \A r \in Reqs :
    (variant = "multi" /\ Done(r) /\ reqs[r].method = "OPTIONS")
      => /\ reqs[r].resp = [status |-> 200, body |-> NoBody]
         /\ ~reqs[r].parsed /\ ~reqs[r].handler
         /\ reqs[r].secret = Undefined /\ reqs[r].calls = 0

\* C5 amended: in the multi-mode program every OPTIONS request, to any path,
\* is answered 200 by the CORS middleware with the text body "OK" that
\* res.sendStatus(200) sends, with no body parsing, no route handler, no
\* secret lookup and no outbound call.
C5_OptionsShortCircuit ==
  \A r \in Reqs :
    (variant = "multi" /\ reqs[r].method = "OPTIONS")
      => /\ Done(r) /\ reqs[r].cors
         /\ reqs[r].resp = [status |-> 200, body |-> TextBody("OK")]
         /\ ~reqs[r].parsed /\ ~reqs[r].handler
         /\ reqs[r].secret = Undefined /\ reqs[r].calls = 0

\* OPTIONS requests to both paths have been answered by the CORS middleware.
C5_Witness ==
  /\ variant = "multi"
  /\ \E r, s \in Reqs :
       /\ reqs[r].method = "OPTIONS" /\ reqs[r].path = "/turnstile-check"
       /\ reqs[s].method = "OPTIONS" /\ reqs[s].path = "/recaptcha"
       /\ reqs[r].resp.status = 200 /\ reqs[s].resp.status = 200

\* C6: a request the verification handler takes causes exactly one outbound
\* call, whatever the provider's outcome; any other request causes none; no
\* request ever causes a second call.
C6_OneCallPerRequest ==
  \A r \in Reqs :
    /\ reqs[r].calls <= 1
    /\ reqs[r].handler => reqs[r].calls = 1
    /\ (reqs[r].st # "idle" /\ ~reqs[r].handler) => reqs[r].calls = 0
    /\ (reqs[r].st # "idle" /\ IsVerify(reqs[r])) => reqs[r].handler

\* A request whose outbound call failed has been answered after one call.
C6_Witness ==
  \E r \in Reqs :
    /\ Done(r) /\ reqs[r].upstream = "network-error"
    /\ reqs[r].resp.status = 500 /\ reqs[r].calls = 1

\* C7: once a process-fatal condition was logged (port already bound,
\* unhandled promise rejection, uncaught exception), the process has exited
\* with a non-zero code.
C7_FatalExits ==
  (console \cap {"Port is already in use", "Unhandled Rejection at:", "Uncaught Exception:"} # {})
    => (proc = "exited" /\ exitCode # 0)

\* C8: a POST /recaptcha is taken by the verification operation: it causes
\* one outbound call and, once answered, got 200 {success: true},
\* 400 {success: false} or the 500 of a failed call.
C8_RecaptchaRoute ==
  \A r \in Reqs :
    (reqs[r].method = "POST" /\ reqs[r].path = "/recaptcha")
      => /\ reqs[r].calls = 1
         /\ Done(r) => reqs[r].resp \in {SuccessTrue, SuccessFalse, InternalError}

\* C9, responses: two answered requests with the same method, path, token
\* and mode and the same upstream outcome have the same response.
C9_SameResponse ==
  \A r, s \in Reqs :
    (Done(r) /\ Done(s)
       /\ reqs[r].method = reqs[s].method /\ reqs[r].path = reqs[s].path
       /\ reqs[r].token = reqs[s].token /\ reqs[r].mode = reqs[s].mode
       /\ reqs[r].upstream = reqs[s].upstream /\ reqs[r].data = reqs[s].data)
      => reqs[r].resp = reqs[s].resp

\* C9, state: no step changes the configuration, and a step of one request
\* changes no other request.
C9_NoSharedWrites ==
  /\ SECRET_KEY' = SECRET_KEY /\ env' = env /\ variant' = variant
  /\ \A r, s \in Reqs : (reqs'[r] # reqs[r] /\ s # r) => reqs'[s] = reqs[s]

\* C9: the response depends only on the request and the upstream outcome,
\* and request handling writes no shared state.
C9_Idempotent == []C9_SameResponse /\ [][C9_NoSharedWrites]_vars

\* Two requests with the same inputs and the same upstream body, both
\* answered, the second completed while nothing else was in flight.
C9_Witness ==
  \E r, s \in Reqs :
    /\ r # s /\ Done(r) /\ Done(s)
    /\ IsVerify(reqs[r]) /\ IsVerify(reqs[s])
    /\ reqs[r].mode = reqs[s].mode /\ reqs[r].token = reqs[s].token
    /\ GotObject(reqs[r]) /\ reqs[r].data = reqs[s].data
    /\ reqs[r].resp = reqs[s].resp

\* C10: an outbound call has been issued for a request only if the request
\* resolved a secret that is neither undefined nor empty.
C10_SecretResolved ==
  \A r \in Reqs : reqs[r].calls > 0 => reqs[r].secret \notin {Undefined, ""}

====
